---- MODULE Spec2Model ----
(***************************************************************************)
(* A model of compare_projects.py: the ProjectComparator class (filter,    *)
(* tree scan, content comparison, compare, report) and main().             *)
(*                                                                         *)
(* Strings are sequences of one-character strings, so that suffix          *)
(* extraction, lower-casing, glob matching, line splitting and sorting     *)
(* are computed the way the Python code and its library calls compute      *)
(* them.  A relative path is the sequence of its components (each a        *)
(* name); Str(path) is the string str(rel_path) with "/" separators.       *)
(***************************************************************************)
EXTENDS Integers, Sequences, FiniteSets, TLC

VARIABLES
    fs,             \* the filesystem: root name |-> tree (path |-> entry)
    path1, path2,   \* self.path1, self.path2 (root names)
    ignore_ext, only_ext, ignore_dirs, ignore_files,   \* the filter sets
    only_in_path1, only_in_path2, diff_files,          \* the result records
    pc,             \* position of the running operation
    file_path,      \* argument of the last _should_ignore call (a filename)
    ignored,        \* its return value
    base_path,      \* argument of the last _get_relative_files call
    files,          \* its return value
    visited,        \* the directories os.walk yielded during that call
    output,         \* args.output (NoOutput when absent)
    out_writable,   \* whether open(output_file, 'w') succeeds
    report,         \* the report string built by generate_report
    status,         \* exit status of the process (Running while it runs)
    scanned,        \* whether compare() has started scanning in this run
    raised,         \* what was raised inside main's try block
    last_fail       \* history: the <<side, path>> reads that failed in the last compare()

cmpVars == <<path1, path2, ignore_ext, only_ext, ignore_dirs, ignore_files,
             only_in_path1, only_in_path2, diff_files>>
filterVars == <<file_path, ignored>>
scanVars == <<base_path, files, visited>>
mainVars == <<output, out_writable, report, status, scanned, raised>>
vars == <<fs, cmpVars, pc, filterVars, scanVars, mainVars, last_fail>>

(***************************************************************************)
(* Bounds of the model.                                                    *)
(***************************************************************************)
MaxNameLen == 3      \* longest filename given to _should_ignore
MaxPatterns == 1     \* most glob patterns in ignore_files
MaxDepth == 2        \* deepest directory nesting of a scanned tree
MaxEntries == 2      \* most entries (other than real directories) of a scanned tree

(***************************************************************************)
(* Characters and strings.                                                 *)
(***************************************************************************)
LF == "\n"
CR == "\r"
BAD == "FF"          \* stands for one byte that is not valid UTF-8

\* The code points the model uses, in increasing order (Python compares
\* strings by code point).
Alphabet == <<LF, CR, "*", ".", "/", "?", "L", "P", "a", "b", "l", "m", "n",
              "p", "s", "u", "x", "y", BAD>>

Ord(c) == CHOOSE i \in 1..Len(Alphabet) : Alphabet[i] = c

\* str.lower() on one character.
LowerChar(c) == CASE c = "P" -> "p"
                  [] c = "L" -> "l"
                  [] OTHER -> c

Lower(s) == [i \in 1..Len(s) |-> LowerChar(s[i])]

\* Python's s1 < s2 on strings.
RECURSIVE StrLess(_, _)
StrLess(s, t) ==
    IF t = <<>> THEN FALSE
    ELSE IF s = <<>> THEN TRUE
    ELSE IF Head(s) = Head(t) THEN StrLess(Tail(s), Tail(t))
    ELSE Ord(Head(s)) < Ord(Head(t))

\* str(rel_path): the components joined by the separator.
RECURSIVE Str(_)
Str(p) ==
    IF p = <<>> THEN <<>>
    ELSE IF Len(p) = 1 THEN p[1]
    ELSE p[1] \o <<"/">> \o Str(Tail(p))

\* sorted(S) for a set of relative paths, by their strings.
RECURSIVE Sorted(_)
Sorted(S) ==
    IF S = {} THEN <<>>
    ELSE LET m == CHOOSE x \in S : \A y \in S \ {x} : StrLess(Str(x), Str(y))
         IN <<m>> \o Sorted(S \ {m})

\* All strings over the characters C of length lo..hi.
StringsOver(C, lo, hi) == UNION {[1..n -> C] : n \in lo..hi}

(***************************************************************************)
(* _should_ignore                                                          *)
(***************************************************************************)
\* pathlib's PurePath.suffix of a filename: from the last dot, unless there
\* is none or it is the first or the last character.
Suffix(name) ==
    LET dots == {i \in 1..Len(name) : name[i] = "."}
    IN IF dots = {} THEN <<>>
       ELSE LET i == CHOOSE d \in dots : \A e \in dots : e <= d
            IN IF i > 1 /\ i < Len(name) THEN SubSeq(name, i, Len(name))
               ELSE <<>>

\* fnmatch.fnmatch(filename, pattern) on a POSIX system (normcase is the
\* identity): "*" matches any string, "?" any one character, anything else
\* itself; the whole filename has to match.
RECURSIVE Fnmatch(_, _)
Fnmatch(name, pat) ==
    IF pat = <<>> THEN name = <<>>
    ELSE IF Head(pat) = "*"
         THEN Fnmatch(name, Tail(pat))
              \/ (name # <<>> /\ Fnmatch(Tail(name), pat))
    ELSE /\ name # <<>>
         /\ (Head(pat) = "?" \/ Head(pat) = Head(name))
         /\ Fnmatch(Tail(name), Tail(pat))

\* The mutants of ShouldIgnore used to test the claims' formulas.
ShouldIgnoreNoIgnoreExt(name, onlyExt, ignoreExt, ignoreFiles) ==
    LET ext == Lower(Suffix(name))
    IN IF \E pattern \in ignoreFiles : Fnmatch(name, pattern) THEN TRUE
       ELSE IF onlyExt # {} /\ ext \notin onlyExt THEN TRUE
       ELSE IF onlyExt = {} /\ ext \in ignoreExt THEN TRUE
       ELSE FALSE

ShouldIgnoreNoPatterns(name, onlyExt, ignoreExt, ignoreFiles) ==
    LET ext == Lower(Suffix(name))
    IN IF onlyExt # {} /\ ext \notin onlyExt THEN TRUE
       ELSE IF ext \in ignoreExt THEN TRUE
       ELSE FALSE

\* _should_ignore(file_path), with the filter sets it reads passed in.
ShouldIgnore(name, onlyExt, ignoreExt, ignoreFiles) ==
    LET ext == Lower(Suffix(name))
    IN IF \E pattern \in ignoreFiles : Fnmatch(name, pattern) THEN TRUE
       ELSE IF onlyExt # {} /\ ext \notin onlyExt THEN TRUE
       ELSE IF ext \in ignoreExt THEN TRUE
       ELSE FALSE

(***************************************************************************)
(* The filesystem.  A tree maps the relative path of every entry that is   *)
(* not a real directory to [kind, content]; a real directory               *)
(* exists where some path passes through it.  Kinds: "file" (regular),     *)
(* "symlink" (to a regular file), "device" (device file, FIFO, socket),    *)
(* "linkdir" (a symlink to a directory: the paths below it are what would  *)
(* be seen through the link).                                              *)
(***************************************************************************)
Entry(k, c) == [kind |-> k, content |-> c]

IsPrefix(d, p) == Len(d) < Len(p) /\ SubSeq(p, 1, Len(d)) = d

\* os.scandir(top): the names in directory top.
ScanDir(tree, top) == {p[Len(top) + 1] : p \in {q \in DOMAIN tree : IsPrefix(top, q)}}

\* entry.is_dir(): true of a directory and of a symlink to one.
IsDir(tree, p) ==
    \/ p \in DOMAIN tree /\ tree[p].kind = "linkdir"
    \/ \E q \in DOMAIN tree : IsPrefix(p, q)

\* os.path.islink of a directory entry.
IsLink(tree, p) == p \in DOMAIN tree /\ tree[p].kind = "linkdir"

(***************************************************************************)
(* _get_relative_files                                                     *)
(***************************************************************************)
\* A mutant of the pruning: nothing is removed from dirs.
PruneNothing(dirs, ignoreDirs) == dirs

\* dirs[:] = [d for d in dirs if d not in self.ignore_dirs]
Prune(dirs, ignoreDirs) == {d \in dirs : d \notin ignoreDirs}

\* os.walk(base_path), top-down, followlinks=False, with the loop body's
\* in-place pruning of dirs: the set of (root, dirs, filenames) triples it
\* yields from directory top down.  Entries for which is_dir() holds go to
\* dirs, every other entry to filenames; a symlinked directory stays in dirs
\* and is not walked into.
RECURSIVE OsWalk(_, _, _)
OsWalk(tree, top, ignoreDirs) ==
    LET names == ScanDir(tree, top)
        dirs == Prune({n \in names : IsDir(tree, top \o <<n>>)}, ignoreDirs)
        filenames == {n \in names : ~IsDir(tree, top \o <<n>>)}
    IN {<<top, dirs, filenames>>}
       \cup UNION {OsWalk(tree, top \o <<d>>, ignoreDirs) :
                     d \in {e \in dirs : ~IsLink(tree, top \o <<e>>)}}

\* The (root, dirs, filenames) triples of a walk of root r; os.walk of a
\* path that is no directory yields nothing.
Walk(r, ignoreDirs) ==
    IF r \in DOMAIN fs THEN OsWalk(fs[r], <<>>, ignoreDirs) ELSE {}

\* _get_relative_files(base_path): the relative paths of the filenames that
\* _should_ignore lets through.
GetRelativeFiles(r) ==
    UNION {{t[1] \o <<f>> : f \in {g \in t[3] :
                ~ShouldIgnore(g, only_ext, ignore_ext, ignore_files)}} :
           t \in Walk(r, ignore_dirs)}

(***************************************************************************)
(* _compare_file_content                                                   *)
(***************************************************************************)
\* decode('utf-8', errors='ignore'): undecodable bytes are dropped.
Decode(bytes) == SelectSeq(bytes, LAMBDA c : c # BAD)

\* open(..., 'r') has newline=None: on input "\r\n" and a lone "\r" are
\* translated to "\n".
RECURSIVE UniversalNewlines(_)
UniversalNewlines(s) ==
    IF s = <<>> THEN <<>>
    ELSE IF Head(s) = CR
         THEN <<LF>> \o UniversalNewlines(IF Len(s) > 1 /\ s[2] = LF
                                          THEN Tail(Tail(s)) ELSE Tail(s))
    ELSE <<Head(s)>> \o UniversalNewlines(Tail(s))

\* readlines(): the text cut after every "\n", each line keeping its "\n".
RECURSIVE SplitLines(_)
SplitLines(s) ==
    IF s = <<>> THEN <<>>
    ELSE LET nl == {i \in 1..Len(s) : s[i] = LF}
         IN IF nl = {} THEN <<s>>
            ELSE LET i == CHOOSE k \in nl : \A j \in nl : k <= j
                 IN <<SubSeq(s, 1, i)>> \o SplitLines(SubSeq(s, i + 1, Len(s)))

\* with open(file, 'r', encoding='utf-8', errors='ignore') as f: f.readlines()
ReadLines(bytes) == SplitLines(UniversalNewlines(Decode(bytes)))

Digit(n) == <<"0", "1", "2", "3", "4", "5", "6", "7", "8", "9">>[n + 1]

\* difflib's range of a hunk that starts at the first line and has n lines.
RangeUnified(n) ==
    IF n = 1 THEN <<"1">>
    ELSE IF n = 0 THEN <<"0", ",", "0">>
    ELSE <<"1", ",", Digit(n)>>

Prefixed(mark, lines) == [i \in 1..Len(lines) |-> <<mark>> \o lines[i]]

\* A mutant of UnifiedDiff: a diff that lists the lines of equal files too,
\* as difflib.ndiff does.
DiffOfEverything(lines1, lines2, rel_path) ==
    << <<"--- Project1/">> \o Str(rel_path), <<"+++ Project2/">> \o Str(rel_path) >>
    \o Prefixed("-", lines1) \o Prefixed("+", lines2)

\* list(difflib.unified_diff(lines1, lines2, fromfile, tofile, lineterm='')):
\* empty when the sequences are equal; otherwise the two header lines, one
\* hunk header and the hunk.  Modelled for files of at most three lines
\* (everything fits the three lines of context of a single hunk) whose
\* changed middles share no line, where the hunk is the common prefix, the
\* removed lines, the added lines and the common suffix.
UnifiedDiff(lines1, lines2, rel_path) ==
    IF lines1 = lines2 THEN <<>>
    ELSE LET n1 == Len(lines1)
             n2 == Len(lines2)
             m == IF n1 < n2 THEN n1 ELSE n2
             preS == {k \in 0..m : SubSeq(lines1, 1, k) = SubSeq(lines2, 1, k)}
             pre == CHOOSE k \in preS : \A j \in preS : j <= k
             sufS == {k \in 0..(m - pre) :
                        SubSeq(lines1, n1 - k + 1, n1) = SubSeq(lines2, n2 - k + 1, n2)}
             suf == CHOOSE k \in sufS : \A j \in sufS : j <= k
         IN << <<"--- Project1/">> \o Str(rel_path),
               <<"+++ Project2/">> \o Str(rel_path),
               <<"@@ -">> \o RangeUnified(n1) \o <<" +">> \o RangeUnified(n2)
                          \o <<" @@">> >>
            \o Prefixed(" ", SubSeq(lines1, 1, pre))
            \o Prefixed("-", SubSeq(lines1, pre + 1, n1 - suf))
            \o Prefixed("+", SubSeq(lines2, pre + 1, n2 - suf))
            \o Prefixed(" ", SubSeq(lines1, n1 - suf + 1, n1))

\* [f"ERROR: File could not be compared - {str(e)}"]: the description of an
\* OSError names the file that could not be opened or read.
ErrorRecord(root, rel_path) ==
    << <<"ERROR: File could not be compared - ", root, "/">> \o Str(rel_path) >>

\* The value None (no difference); like None, it is falsy and has no lines.
None == <<>>

\* _compare_file_content(rel_path).  fail is the set of <<side, path>> reads
\* that raise an Exception in this call (permission denied, file deleted
\* after the scan, I/O error); a path missing from its tree fails too.
CompareFileContent(rel_path, fail) ==
    LET t1 == fs[path1]
        t2 == fs[path2]
    IN IF <<1, rel_path>> \in fail \/ rel_path \notin DOMAIN t1
       THEN ErrorRecord(path1, rel_path)
       ELSE IF <<2, rel_path>> \in fail \/ rel_path \notin DOMAIN t2
       THEN ErrorRecord(path2, rel_path)
       ELSE LET diff == UnifiedDiff(ReadLines(t1[rel_path].content),
                                    ReadLines(t2[rel_path].content), rel_path)
            IN IF Len(diff) > 0 THEN diff ELSE None

(***************************************************************************)
(* compare                                                                 *)
(***************************************************************************)
\* d[k] = v on a dict.
Put(d, k, v) == [x \in DOMAIN d \cup {k} |-> IF x = k THEN v ELSE d[x]]

EmptyDict == [x \in {} |-> <<>>]

\* A mutant of the loop: the first file that cannot be compared ends it.
RECURSIVE CompareLoopAbort(_, _, _)
CompareLoopAbort(todo, d, fail) ==
    IF todo = <<>> THEN d
    ELSE LET rel_path == Head(todo)
             diff == CompareFileContent(rel_path, fail)
         IN IF \E side \in {1, 2} : <<side, rel_path>> \in fail THEN d
            ELSE CompareLoopAbort(Tail(todo),
                                  IF diff # None THEN Put(d, rel_path, diff) ELSE d,
                                  fail)

\* for rel_path in sorted(common_files): diff = ...; if diff: diff_files[rel_path] = diff
RECURSIVE CompareLoop(_, _, _)
CompareLoop(todo, d, fail) ==
    IF todo = <<>> THEN d
    ELSE LET rel_path == Head(todo)
             diff == CompareFileContent(rel_path, fail)
         IN CompareLoop(Tail(todo),
                        IF diff # None THEN Put(d, rel_path, diff) ELSE d,
                        fail)

\* The reads of common files that a compare() can find failing.
Reads(common) == {1, 2} \X common

\* compare(): both scans, the two set differences, and the loop over the
\* common files, which writes into the diff_files the object already holds.
DoCompare(fail) ==
    LET files1 == GetRelativeFiles(path1)
        files2 == GetRelativeFiles(path2)
        common_files == files1 \cap files2
    IN /\ fail \subseteq Reads(common_files)
       /\ only_in_path1' = files1 \ files2
       /\ only_in_path2' = files2 \ files1
       /\ diff_files' = CompareLoop(Sorted(common_files), diff_files, fail)
       /\ last_fail' = fail
       /\ UNCHANGED <<path1, path2, ignore_ext, only_ext, ignore_dirs, ignore_files>>

(***************************************************************************)
(* The comparator as an object: constructed once, compare() called any     *)
(* number of times while the two trees change between the calls.           *)
(***************************************************************************)
Roots == {"A", "B"}

FA == <<"a", ".", "p">>
FB == <<"b", ".", "l">>
SUB == <<"s", "u", "b">>
NM == <<"n", "m">>
ExtP == <<".", "p">>
ExtL == <<".", "l">>

EmptyTree == [x \in {} |-> Entry("file", <<>>)]

CmpPaths == {<<FA>>, <<SUB, FB>>}

CmpContents == {<<"x", LF>>, <<"x", CR, LF>>, <<"x", LF, "y", LF>>}

Config(only, ign, dirs, pats) ==
    [only_ext |-> only, ignore_ext |-> ign, ignore_dirs |-> dirs, ignore_files |-> pats]

CmpConfigs == {Config({}, {}, {}, {}), Config({}, {ExtL}, {}, {})}

NoOutput == "None"

\* The variables an operation of another component leaves at their defaults.
FilterIdle == file_path = <<>> /\ ignored = FALSE
ScanIdle == base_path = "A" /\ files = {} /\ visited = {}
MainIdle == /\ output = NoOutput /\ out_writable = TRUE /\ report = <<>>
            /\ status = {} /\ scanned = FALSE /\ raised = "none"

\* __init__: the filter sets from the arguments, the result records empty.
Construct(p1, p2, cfg) ==
    /\ path1 = p1
    /\ path2 = p2
    /\ ignore_ext = cfg.ignore_ext
    /\ only_ext = cfg.only_ext
    /\ ignore_dirs = cfg.ignore_dirs
    /\ ignore_files = cfg.ignore_files
    /\ only_in_path1 = {}
    /\ only_in_path2 = {}
    /\ diff_files = EmptyDict

Init ==
    /\ fs = [r \in Roots |-> EmptyTree]
    /\ \E p2 \in Roots, cfg \in CmpConfigs : Construct("A", p2, cfg)
    /\ pc = "ready"
    /\ last_fail = {}
    /\ FilterIdle /\ ScanIdle /\ MainIdle

\* The environment writes (creates or overwrites) a regular file in one of
\* the two trees the comparator reads.
WriteFile ==
    \E r \in {path1, path2}, p \in CmpPaths, c \in CmpContents :
        /\ fs' = [fs EXCEPT ![r] = Put(fs[r], p, Entry("file", c))]
        /\ fs' # fs
        /\ pc' = "ready"
        /\ last_fail' = {}
        /\ UNCHANGED <<cmpVars, filterVars, scanVars, mainVars>>

\* The environment removes a file.
RemoveFile ==
    \E r \in {path1, path2}, p \in CmpPaths :
        /\ p \in DOMAIN fs[r]
        /\ fs' = [fs EXCEPT ![r] = [x \in DOMAIN fs[r] \ {p} |-> fs[r][x]]]
        /\ pc' = "ready"
        /\ last_fail' = {}
        /\ UNCHANGED <<cmpVars, filterVars, scanVars, mainVars>>

\* comparator.compare(), with any outcome of the reads of the common files.
Compare ==
    /\ pc \in {"ready", "done"}
    /\ \E fail \in SUBSET Reads(GetRelativeFiles(path1) \cap GetRelativeFiles(path2)) :
           DoCompare(fail)
    /\ pc' = "done"
    /\ UNCHANGED <<fs, filterVars, scanVars, mainVars>>

Next == WriteFile \/ RemoveFile \/ Compare

Spec == Init /\ [][Next]_vars

(***************************************************************************)
(* generate_report and main()                                              *)
(***************************************************************************)
Rule == "=" \* stands for "=" * 80
Dash == "-" \* stands for "-" * 80

\* One section of the report: a title with the count, a rule, one bullet
\* per file in sorted order, an empty line; nothing for an empty collection.
Section(title, S) ==
    IF S = {} THEN <<>>
    ELSE << <<title, Digit(Cardinality(S)), " files):">>, <<Dash>> >>
         \o [i \in 1..Cardinality(S) |-> <<"  > ">> \o Str(Sorted(S)[i])]
         \o << <<>> >>

\* generate_report: the lines that are joined with "\n".
Report ==
    << <<Rule>>, <<"PROJECT COMPARISON REPORT">>, <<Rule>>,
       <<"Project 1: ", path1>>, <<"Project 2: ", path2>>, <<Rule>>, <<>> >>
    \o Section("FILES FOUND ONLY IN PROJECT1 (", only_in_path1)
    \o Section("FILES FOUND ONLY IN PROJECT2 (", only_in_path2)
    \o Section("FILES WITH CONTENT DIFFERENCES (", DOMAIN diff_files)

\* os.path.isdir(args.path)
IsDirRoot(r) == r \in DOMAIN fs

\* What main() can be given as a root: the two trees and a path that is no
\* directory.
ArgPaths == Roots \cup {"missing"}

MainPaths == {<<FA>>}

MainTrees == {EmptyTree} \cup {[x \in MainPaths |-> Entry("file", c)] : c \in CmpContents}

MainConfigs == CmpConfigs \cup {Config({ExtP}, {ExtP}, {NM}, {<<"b", "*">>})}

\* The state main() starts in, after parse_args: path1, path2 and the filter
\* sets hold the arguments until the comparator is constructed from them.
InitMain ==
    /\ fs \in [Roots -> MainTrees]
    /\ \E p1 \in ArgPaths, p2 \in ArgPaths, cfg \in MainConfigs : Construct(p1, p2, cfg)
    /\ output \in {NoOutput, "out.txt"}
    /\ out_writable \in BOOLEAN
    /\ report = <<>>
    /\ status = {}
    /\ scanned = FALSE
    /\ raised = "none"
    /\ pc = "main"
    /\ last_fail = {}
    /\ FilterIdle /\ ScanIdle

\* A mutant of Exit: every exit reports success.
ExitZero(code) == pc' = "exited" /\ status' = {0}

\* sys.exit(code), also the normal return of main() (code 0).
Exit(code) == pc' = "exited" /\ status' = {code}

\* if not os.path.isdir(args.path1): ...; sys.exit(1)
CheckPath1 ==
    /\ pc = "main"
    /\ IF ~IsDirRoot(path1) THEN Exit(1) ELSE pc' = "path1_ok" /\ status' = status
    /\ UNCHANGED <<fs, cmpVars, filterVars, scanVars, output, out_writable, report,
                   scanned, raised, last_fail>>

\* if not os.path.isdir(args.path2): ...; sys.exit(1); otherwise the
\* comparator is constructed.
CheckPath2 ==
    /\ pc = "path1_ok"
    /\ IF ~IsDirRoot(path2) THEN Exit(1) ELSE pc' = "constructed" /\ status' = status
    /\ UNCHANGED <<fs, cmpVars, filterVars, scanVars, output, out_writable, report,
                   scanned, raised, last_fail>>

\* comparator.compare() returning normally.
MainCompare ==
    /\ pc = "constructed"
    /\ \E fail \in SUBSET Reads(GetRelativeFiles(path1) \cap GetRelativeFiles(path2)) :
           DoCompare(fail)
    /\ scanned' = TRUE
    /\ pc' = "compared"
    /\ UNCHANGED <<fs, filterVars, scanVars, output, out_writable, report, status, raised>>

\* comparator.generate_report(args.output): the report is built, and written
\* when an output file is given; open(output_file, 'w') raises an OSError
\* when the file cannot be written, which main's except Exception turns into
\* sys.exit(1).
GenerateReport ==
    /\ pc = "compared"
    /\ IF output # NoOutput /\ ~out_writable
       THEN raised' = "Exception" /\ report' = report /\ Exit(1)
       ELSE raised' = raised /\ report' = Report /\ pc' = "reported" /\ status' = status
    /\ UNCHANGED <<fs, cmpVars, filterVars, scanVars, output, out_writable, scanned,
                   last_fail>>

\* print of the report when no output file is given, print_summary, and the
\* return of main().
PrintSummary ==
    /\ pc = "reported"
    /\ Exit(0)
    /\ UNCHANGED <<fs, cmpVars, filterVars, scanVars, output, out_writable, report,
                   scanned, raised, last_fail>>

\* KeyboardInterrupt, or an Exception such as a failing print, raised inside
\* the try block: during compare (which then may or may not have begun to
\* scan), generate_report or print_summary.  Both handlers sys.exit(1).
RaiseInTry ==
    /\ pc \in {"constructed", "compared", "reported"}
    /\ raised' \in {"KeyboardInterrupt", "Exception"}
    /\ scanned' \in (IF pc = "constructed" THEN BOOLEAN ELSE {scanned})
    /\ Exit(1)
    /\ UNCHANGED <<fs, cmpVars, filterVars, scanVars, output, out_writable, report,
                   last_fail>>

NextMain == CheckPath1 \/ CheckPath2 \/ MainCompare \/ GenerateReport
            \/ PrintSummary \/ RaiseInTry

SpecMain == InitMain /\ [][NextMain]_vars

(***************************************************************************)
(* _should_ignore on its own: any filename, any filter sets.               *)
(***************************************************************************)
NameChars == {"a", ".", "p", "P"}

ExtChoices == {ExtP, <<".", "P">>, <<".", "a">>}

PatternChoices == {<<"*">>, <<"*", ".", "p">>, <<"a", "?", "p">>, <<"a", ".", "p">>}

InitFilter ==
    /\ file_path \in StringsOver(NameChars, 1, MaxNameLen)
    /\ only_ext \in SUBSET ExtChoices
    /\ ignore_ext \in SUBSET ExtChoices
    /\ ignore_files \in {S \in SUBSET PatternChoices : Cardinality(S) <= MaxPatterns}
    /\ ignored = FALSE
    /\ pc = "start"
    /\ fs = [r \in Roots |-> EmptyTree]
    /\ path1 = "A" /\ path2 = "B" /\ ignore_dirs = {}
    /\ only_in_path1 = {} /\ only_in_path2 = {} /\ diff_files = EmptyDict
    /\ last_fail = {}
    /\ ScanIdle /\ MainIdle

\* self._should_ignore(file_path)
ShouldIgnoreCall ==
    /\ pc = "start"
    /\ ignored' = ShouldIgnore(file_path, only_ext, ignore_ext, ignore_files)
    /\ pc' = "returned"
    /\ UNCHANGED <<fs, cmpVars, file_path, scanVars, mainVars, last_fail>>

NextFilter == ShouldIgnoreCall

SpecFilter == InitFilter /\ [][NextFilter]_vars

(***************************************************************************)
(* _get_relative_files on its own: any tree of regular files, symlinks,    *)
(* device files and symlinked directories, any ignore_dirs.                *)
(***************************************************************************)
ScanDirNames == {NM, SUB}

DirSeqs == UNION {[1..n -> ScanDirNames] : n \in 0..MaxDepth}

ScanLeafPaths == {d \o <<FA>> : d \in DirSeqs}

LeafKinds == {"file", "symlink", "device"}

\* What a scanned tree can hold: an entry of any leaf kind at a file path, a
\* symlinked directory at a directory path.
ScanItems ==
    {[path |-> p, kind |-> k] : p \in ScanLeafPaths, k \in LeafKinds}
    \cup {[path |-> d, kind |-> "linkdir"] : d \in DirSeqs \ {<<>>}}

\* The subsets of S with at most k elements.
RECURSIVE SetsUpTo(_, _)
SetsUpTo(S, k) ==
    IF k = 0 THEN {{}}
    ELSE LET prev == SetsUpTo(S, k - 1)
         IN prev \cup {T \cup {x} : T \in prev, x \in S}

\* The tree with the entries E (one entry per path).
MakeTree(E) ==
    [p \in {e.path : e \in E} |->
        Entry((CHOOSE e \in E : e.path = p).kind, <<"x", LF>>)]

ScanTrees ==
    {MakeTree(E) : E \in {F \in SetsUpTo(ScanItems, MaxEntries) :
                            \A e1 \in F, e2 \in F : e1.path = e2.path => e1 = e2}}

ScanConfigs == {Config({}, ign, dirs, {}) : ign \in {{}, {ExtP}}, dirs \in {{}, {NM}}}

InitScan ==
    /\ \E t \in ScanTrees : fs = [r \in {"A"} |-> t]
    /\ \E cfg \in ScanConfigs : Construct("A", "A", cfg)
    /\ pc = "start"
    /\ last_fail = {}
    /\ FilterIdle /\ ScanIdle /\ MainIdle

\* files = self._get_relative_files(base_path)
Scan ==
    /\ pc = "start"
    /\ base_path' = path1
    /\ files' = GetRelativeFiles(path1)
    /\ visited' = {t[1] : t \in Walk(path1, ignore_dirs)}
    /\ pc' = "scanned"
    /\ UNCHANGED <<fs, cmpVars, filterVars, mainVars, last_fail>>

NextScan == Scan

SpecScan == InitScan /\ [][NextScan]_vars

(***************************************************************************)
(* The claims.                                                             *)
(***************************************************************************)
\* The extension of the file last given to _should_ignore, and whether its
\* filename matches a pattern of ignoreFilePatterns.
Extension == Lower(Suffix(file_path))
MatchesIgnorePattern == \E pattern \in ignore_files : Fnmatch(file_path, pattern)
Included == pc = "returned" /\ ignored = FALSE

\* The common files of the scans of the current trees, and the reads of p
\* that failed in the compare() that has just finished.
Common == GetRelativeFiles(path1) \cap GetRelativeFiles(path2)
ReadFailed(p) == \E side \in {1, 2} : <<side, p>> \in last_fail
LinesOf(r, p) == ReadLines(fs[r][p].content)
IsErrorRecord(d) ==
    Len(d) = 1 /\ Len(d[1]) > 0 /\ d[1][1] = "ERROR: File could not be compared - "

\* C1 (as claimed): after compare() finishes, only_in_path1, only_in_path2
\* and the keys of diff_files are pairwise disjoint.
C1_ResultsDisjoint ==
    pc = "done" =>
        /\ only_in_path1 \cap only_in_path2 = {}
        /\ only_in_path1 \cap DOMAIN diff_files = {}
        /\ only_in_path2 \cap DOMAIN diff_files = {}

\* C2 (as claimed): with a non-empty only_ext, a file is included iff its
\* extension is in only_ext and its filename matches no ignore pattern,
\* whatever ignore_ext contains.
C2_AllowListOverridesIgnoreExt ==
    (pc = "returned" /\ only_ext # {}) =>
        (Included <=> (Extension \in only_ext /\ ~MatchesIgnorePattern))

\* C2 (amended): with a non-empty only_ext, a file is included iff its
\* extension is in only_ext, is not in ignore_ext, and its filename matches
\* no ignore pattern.
C2_AllowListAndIgnoreExt ==
    (pc = "returned" /\ only_ext # {}) =>
        (Included <=> (/\ Extension \in only_ext
                       /\ Extension \notin ignore_ext
                       /\ ~MatchesIgnorePattern))

\* A file whose extension is in both only_ext and ignore_ext, matching no
\* pattern, has been excluded.
C2_Witness ==
    /\ pc = "returned"
    /\ Extension \in only_ext \cap ignore_ext
    /\ ignore_files # {}
    /\ ~MatchesIgnorePattern
    /\ ignored = TRUE

\* C3: with an empty only_ext, a file is included iff its extension is not
\* in ignore_ext and its filename matches no ignore pattern.
C3_IgnoreListDecides ==
    (pc = "returned" /\ only_ext = {}) =>
        (Included <=> (Extension \notin ignore_ext /\ ~MatchesIgnorePattern))

\* A file with an extension has been included under an empty only_ext while
\* both ignore_ext and ignore_files were non-empty.
C3_Witness ==
    /\ Included
    /\ only_ext = {}
    /\ ignore_ext # {}
    /\ ignore_files # {}
    /\ Extension # <<>>

\* The directories a relative path lies beneath.
DirsAbove(p) == {p[i] : i \in 1..(Len(p) - 1)}
BeneathLinkedDir(tree, p) == \E q \in DOMAIN tree : tree[q].kind = "linkdir" /\ IsPrefix(q, p)
PassesFileFilter(p) == ~ShouldIgnore(p[Len(p)], only_ext, ignore_ext, ignore_files)

\* C4: the scan result holds no file beneath a directory named in
\* ignore_dirs, at any depth, and directory pruning removes no file that is
\* not beneath such a directory.
C4_PrunedDirectories ==
    pc = "scanned" =>
        /\ \A p \in files : DirsAbove(p) \cap ignore_dirs = {}
        /\ \A p \in DOMAIN fs[base_path] :
               (/\ fs[base_path][p].kind # "linkdir"
                /\ ~BeneathLinkedDir(fs[base_path], p)
                /\ PassesFileFilter(p)
                /\ DirsAbove(p) \cap ignore_dirs = {}) => p \in files

\* A file that passes the file filter lies two levels beneath an ignored
\* directory and is missing from a non-empty scan result.
C4_Witness ==
    /\ pc = "scanned"
    /\ files # {}
    /\ \E p \in DOMAIN fs[base_path] :
           /\ Len(p) >= 3
           /\ p[1] \in ignore_dirs
           /\ p[2] \notin ignore_dirs
           /\ fs[base_path][p].kind = "file"
           /\ PassesFileFilter(p)
           /\ p \notin files

\* C5: a common file whose read failed has exactly one synthetic error line
\* as its entry and is in neither only-set, and every other common file has
\* still been compared and, where its two copies differ, recorded.
C5_ReadFailureIsData ==
    pc = "done" =>
        \A p \in Common :
            IF ReadFailed(p)
            THEN /\ p \in DOMAIN diff_files
                 /\ IsErrorRecord(diff_files[p])
                 /\ p \notin only_in_path1 \cup only_in_path2
            ELSE LinesOf(path1, p) # LinesOf(path2, p) =>
                     /\ p \in DOMAIN diff_files
                     /\ diff_files[p] = UnifiedDiff(LinesOf(path1, p), LinesOf(path2, p), p)

\* The read of one common file failed, and a common file that sorts after it
\* and differs has its unified diff recorded.
C5_Witness ==
    /\ pc = "done"
    /\ \E p \in Common, q \in Common :
           /\ StrLess(Str(p), Str(q))
           /\ ReadFailed(p)
           /\ IsErrorRecord(diff_files[p])
           /\ ~ReadFailed(q)
           /\ q \in DOMAIN diff_files
           /\ ~IsErrorRecord(diff_files[q])

\* C6 (as claimed): comparing a tree against itself yields empty
\* only_in_path1, only_in_path2 and diff_files.
C6_SelfCompareEmpty ==
    (pc = "done" /\ path1 = path2) =>
        /\ only_in_path1 = {}
        /\ only_in_path2 = {}
        /\ DOMAIN diff_files = {}

\* C6 (amended): a compare() of a tree against itself leaves only_in_path1
\* and only_in_path2 empty and adds to diff_files nothing but the single
\* synthetic error line of a file whose read failed in that call; every
\* entry of diff_files is such an error line, never a unified diff.
C6_SelfCompareOnlyErrors ==
    [][(path1 = path2 /\ pc' = "done") =>
           /\ only_in_path1' = {}
           /\ only_in_path2' = {}
           /\ \A p \in DOMAIN diff_files' :
                  /\ p \in DOMAIN diff_files \/ \E side \in {1, 2} : <<side, p>> \in last_fail'
                  /\ diff_files'[p] = ErrorRecord(path1, p)]_vars

\* A tree with a file has been compared against itself, a read failed, and
\* diff_files is not empty.
C6_Witness ==
    /\ pc = "done"
    /\ path1 = path2
    /\ Common # {}
    /\ last_fail # {}
    /\ DOMAIN diff_files # {}

\* Two byte strings that differ only in line-ending style.
OnlyLineEndingsDiffer(b1, b2) ==
    /\ b1 # b2
    /\ SelectSeq(b1, LAMBDA c : c \notin {CR, LF}) = SelectSeq(b2, LAMBDA c : c \notin {CR, LF})
    /\ Len(SplitLines(UniversalNewlines(b1))) = Len(SplitLines(UniversalNewlines(b2)))

\* C7 (as claimed): a common file whose two copies differ only in
\* line-ending style is reported in diff_files.
C7_LineEndingsAreDifferences ==
    pc = "done" =>
        \A p \in Common :
            (~ReadFailed(p) /\ OnlyLineEndingsDiffer(fs[path1][p].content, fs[path2][p].content))
                => p \in DOMAIN diff_files

\* C8 (as claimed): the scan result holds regular files only, and the
\* traversal never enters a symlinked directory.
C8_OnlyRegularFiles ==
    pc = "scanned" =>
        /\ \A p \in files : fs[base_path][p].kind = "file"
        /\ \A d \in visited : ~IsLink(fs[base_path], d) /\ ~BeneathLinkedDir(fs[base_path], d)

\* The part of C8 that the code does meet: no symlinked directory is walked
\* into, and nothing in or beneath one is in the scan result.
C8_NoDescentIntoLinkedDir ==
    pc = "scanned" =>
        /\ \A d \in visited : ~IsLink(fs[base_path], d) /\ ~BeneathLinkedDir(fs[base_path], d)
        /\ \A p \in files : ~IsLink(fs[base_path], p) /\ ~BeneathLinkedDir(fs[base_path], p)

\* C9: main() exits with status 1, before any scanning, when a root is not
\* an existing directory; with status 1 when the run is interrupted or an
\* error is raised during compare, report generation or summary printing;
\* with status 0 otherwise, whatever was found.
C9_ExitStatus ==
    /\ status # {} => pc = "exited"
    /\ (~IsDirRoot(path1) \/ ~IsDirRoot(path2)) =>
           /\ ~scanned
           /\ pc = "exited" => status = {1}
    /\ (pc = "exited" /\ raised # "none") => status = {1}
    /\ (pc = "exited" /\ IsDirRoot(path1) /\ IsDirRoot(path2) /\ raised = "none") =>
           status = {0}

\* A run that found a difference has completed with status 0.
C9_Witness ==
    /\ pc = "exited"
    /\ status = {0}
    /\ DOMAIN diff_files # {}
    /\ raised = "none"

\* C10 (as claimed): after any sequence of compare() calls the three result
\* records are what a newly constructed comparator produces on the current
\* trees.
C10_ResultIsFresh ==
    pc = "done" =>
        /\ only_in_path1 = GetRelativeFiles(path1) \ GetRelativeFiles(path2)
        /\ only_in_path2 = GetRelativeFiles(path2) \ GetRelativeFiles(path1)
        /\ diff_files = CompareLoop(Sorted(Common), EmptyDict, last_fail)

====
